---------------------------- MODULE Spec2Model ----------------------------
(***************************************************************************)
(* A model of cstr_core (src/src/lib.rs): the owned C string CString, the  *)
(* borrowed view CStr, their constructors, conversions and comparisons,    *)
(* the raw-pointer hand-off into_raw / from_raw, and ascii::escape_default.*)
(*                                                                         *)
(* Three specifications share the module:                                  *)
(*   Spec        the heap: allocations, the CStrings, boxes and raw        *)
(*               pointers that own them, and the operations on them;       *)
(*   SpecPure    the value-level functions (new, from_bytes_with_nul,      *)
(*               comparison, hashing) applied to drawn inputs;             *)
(*   SpecEscape  the EscapeDefault iterator over every byte.               *)
(***************************************************************************)
EXTENDS Integers, Sequences, FiniteSets, TLC

\* ------------------------------------------------------------------ bounds

\* Longest byte sequence handed to a constructor.
MaxLen == 3

\* Longest payload of a buffer on the heap.
MaxPayload == 2

\* Number of distinct heap addresses the allocator hands out.
MaxAllocs == 2

\* ------------------------------------------------------------------- bytes

\* u8
U8 == 0..255

\* The byte values inputs are drawn from: the terminator, an ordinary byte
\* and a byte with the high bit set (negative as a signed c_char).
Byte == {0, 1, 200}

SeqsUpTo(S, n) == UNION {[1..k -> S] : k \in 0..n}

ByteSeqs == SeqsUpTo(Byte, MaxLen)

\* The byte sequences the heap specification hands to constructors: the
\* vectors given to new, and the slices views are made over (up to a
\* payload and its terminator).
HeapVecs == SeqsUpTo(Byte, MaxPayload)

HeapSlices == SeqsUpTo(Byte, MaxPayload + 1)

\* The bytes of text inputs: the terminator, a byte with a named escape
\* (\n), a printable one (A), the continuation bytes 0x80 and 0xA9, the
\* lead bytes 0xC3 (of two: 0xC3 0xA9 is U+00E9) and 0xE2 (of three: 0xE2
\* 0x80 0xA9 is U+2029), and 0xFF, which no UTF-8 text holds.
TextByte == {0, 10, 65, 128, 169, 195, 226, 255}

TextSeqs == SeqsUpTo(TextByte, MaxLen)

\* Option<T>
None == [some |-> FALSE]

Some(x) == [some |-> TRUE, v |-> x]

\* `b as c_char` where c_char is i8 (signed) or u8, as cty defines it for
\* the target.
as_c_char(signed, b) == IF signed /\ b >= 128 THEN b - 256 ELSE b

\* `c as u8`
as_u8(c) == c % 256

\* The element-wise reinterpretation of a byte slice as [c_char] and back.
cast_to_c_char(signed, s) == [i \in 1..Len(s) |-> as_c_char(signed, s[i])]

cast_to_u8(s) == [i \in 1..Len(s) |-> as_u8(s[i])]

\* memchr::memchr(needle, haystack): 0-based offset of the first
\* occurrence, scanning forward.
RECURSIVE memchr_from(_, _, _)
memchr_from(needle, haystack, i) ==
    IF i > Len(haystack) THEN None
    ELSE IF haystack[i] = needle THEN Some(i - 1)
    ELSE memchr_from(needle, haystack, i + 1)

memchr(needle, haystack) == memchr_from(needle, haystack, 1)

\* ------------------------------------------------------------------- ascii

\* hexify writing the digits above 9 in upper case.
hexify_upper(b) == IF b \in 0..9 THEN 48 + b ELSE 65 + b - 10

\* hexify, nested in escape_default: b'0' + b, or b'a' + b - 10.
hexify(b) == IF b \in 0..9 THEN 48 + b ELSE 97 + b - 10

\* Range<usize>::next and next_back, over start..end.
Range_next(r) ==
    IF r.start < r.end
    THEN [item |-> Some(r.start), range |-> [r EXCEPT !.start = @ + 1]]
    ELSE [item |-> None, range |-> r]

\* next_back taking from the front, as next does.
Range_next_back_from_front(r) ==
    IF r.start < r.end
    THEN [item |-> Some(r.start), range |-> [r EXCEPT !.start = @ + 1]]
    ELSE [item |-> None, range |-> r]

Range_next_back(r) ==
    IF r.start < r.end
    THEN [item |-> Some(r.end - 1), range |-> [r EXCEPT !.end = @ - 1]]
    ELSE [item |-> None, range |-> r]

\* struct EscapeDefault
EscapeDefault(data, len) ==
    [data |-> data, range |-> [start |-> 0, end |-> len]]

\* ascii::escape_default: the arms of the match, in order.
escape_default(c) ==
    IF c = 9 THEN EscapeDefault(<<92, 116, 0, 0>>, 2)
    ELSE IF c = 13 THEN EscapeDefault(<<92, 114, 0, 0>>, 2)
    ELSE IF c = 10 THEN EscapeDefault(<<92, 110, 0, 0>>, 2)
    ELSE IF c = 92 THEN EscapeDefault(<<92, 92, 0, 0>>, 2)
    ELSE IF c = 39 THEN EscapeDefault(<<92, 39, 0, 0>>, 2)
    ELSE IF c = 34 THEN EscapeDefault(<<92, 34, 0, 0>>, 2)
    ELSE IF c \in 32..126 THEN EscapeDefault(<<c, 0, 0, 0>>, 1)
    ELSE EscapeDefault(<<92, 120, hexify(c \div 16), hexify(c % 16)>>, 4)

\* Iterator::next, DoubleEndedIterator::next_back and size_hint of
\* EscapeDefault; data is indexed from 0.
EscapeDefault_next(e) ==
    LET r == Range_next(e.range) IN
    [item |-> IF r.item.some THEN Some(e.data[r.item.v + 1]) ELSE None,
     iter |-> [e EXCEPT !.range = r.range]]

EscapeDefault_next_back(e) ==
    LET r == Range_next_back(e.range) IN
    [item |-> IF r.item.some THEN Some(e.data[r.item.v + 1]) ELSE None,
     iter |-> [e EXCEPT !.range = r.range]]

size_hint(e) == e.range.end - e.range.start

\* ----------------------------------------------------------------- CString

\* A CString value: the boxed slice it owns.
CString(inner) == [inner |-> inner]

\* from_vec_unchecked without the push: the vector boxed as it came.
from_vec_unchecked_no_push(v) == CString(v)

\* from_vec_unchecked keeping the vector up to its first zero only, as a
\* C string would be read.
from_vec_unchecked_truncating(v) ==
    LET r == memchr(0, v) IN
    CString(Append(IF r.some THEN SubSeq(v, 1, r.v) ELSE v, 0))

\* Vec::push(0) then into_boxed_slice.
from_vec_unchecked(v) == CString(Append(v, 0))

\* _new letting a zero in the final position through as the terminator.
new_trailing_nul_ok(bytes) ==
    LET r == memchr(0, bytes) IN
    IF r.some /\ r.v + 1 # Len(bytes)
    THEN [tag |-> "Err", pos |-> r.v, vec |-> bytes]
    ELSE IF r.some THEN [tag |-> "Ok", val |-> CString(bytes)]
    ELSE [tag |-> "Ok", val |-> from_vec_unchecked(bytes)]

\* CString::_new
new(bytes) ==
    LET r == memchr(0, bytes) IN
    IF r.some THEN [tag |-> "Err", pos |-> r.v, vec |-> bytes]
    ELSE [tag |-> "Ok", val |-> from_vec_unchecked(bytes)]

\* NulError accessors.
nul_position(e) == e.pos

into_vec(e) == e.vec

\* &self.inner[..self.inner.len() - 1]; the subtraction is on usize and the
\* slicing is checked, so an empty inner panics.
as_bytes(c) ==
    IF Len(c.inner) = 0 THEN [panic |-> TRUE]
    ELSE [panic |-> FALSE, v |-> SubSeq(c.inner, 1, Len(c.inner) - 1)]

as_bytes_with_nul(c) == c.inner

\* CString::into_bytes: the box as a vector, its last byte popped.
into_bytes(c) == SubSeq(c.inner, 1, Len(c.inner) - 1)

\* let _nul = vec.pop(): what into_bytes takes off the vector.
into_bytes_nul(c) ==
    IF Len(c.inner) = 0 THEN None ELSE Some(c.inner[Len(c.inner)])

\* derive(Clone) for CString: the boxed slice copied.
clone(c) == CString(c.inner)

\* core::str::from_utf8, as String::from_utf8 runs it over the vector.
utf8_cont(b) == b \in 128..191

RECURSIVE utf8_valid_from(_, _)
utf8_valid_from(s, i) ==
    IF i > Len(s) THEN TRUE
    ELSE LET b == s[i]
             n == Len(s)
         IN IF b < 128 THEN utf8_valid_from(s, i + 1)
            ELSE IF b \in 194..223
            THEN /\ i + 1 <= n
                 /\ utf8_cont(s[i + 1])
                 /\ utf8_valid_from(s, i + 2)
            ELSE IF b \in 224..239
            THEN /\ i + 2 <= n
                 /\ IF b = 224 THEN s[i + 1] \in 160..191
                    ELSE IF b = 237 THEN s[i + 1] \in 128..159
                    ELSE utf8_cont(s[i + 1])
                 /\ utf8_cont(s[i + 2])
                 /\ utf8_valid_from(s, i + 3)
            ELSE IF b \in 240..244
            THEN /\ i + 3 <= n
                 /\ IF b = 240 THEN s[i + 1] \in 144..191
                    ELSE IF b = 244 THEN s[i + 1] \in 128..143
                    ELSE utf8_cont(s[i + 1])
                 /\ utf8_cont(s[i + 2])
                 /\ utf8_cont(s[i + 3])
                 /\ utf8_valid_from(s, i + 4)
            ELSE FALSE

from_utf8(v) == utf8_valid_from(v, 1)

\* into_string wrapping the vector handed back as it is, without the
\* terminator into_bytes took off.
into_string_keeping_vec(c) ==
    LET v == into_bytes(c) IN
    IF from_utf8(v) THEN [tag |-> "Ok", val |-> v]
    ELSE [tag |-> "Err", inner |-> CString(v)]

\* CString::into_string, on the value: the string's bytes, or the
\* IntoStringError with the CString rebuilt from the vector handed back.
into_string(c) ==
    LET v == into_bytes(c) IN
    IF from_utf8(v) THEN [tag |-> "Ok", val |-> v]
    ELSE [tag |-> "Err", inner |-> from_vec_unchecked(v)]

\* IntoStringError::into_cstring
into_cstring(e) == e.inner

\* -------------------------------------------------------------------- CStr

\* A CStr value: the [c_char] slice it aliases.
CStr(inner) == [inner |-> inner]

\* The pointer cast of a byte slice to a CStr: no check at all.
from_bytes_with_nul_unchecked(signed, bytes) ==
    CStr(cast_to_c_char(signed, bytes))

\* from_bytes_with_nul testing the last byte only.
from_bytes_with_nul_last_only(signed, bytes) ==
    IF Len(bytes) > 0 /\ bytes[Len(bytes)] = 0
    THEN [tag |-> "Ok", val |-> from_bytes_with_nul_unchecked(signed, bytes)]
    ELSE [tag |-> "Err", kind |-> "NotNulTerminated"]

\* from_bytes_with_nul looking at the last byte before it scans.
from_bytes_with_nul_last_first(signed, bytes) ==
    LET nul_pos == memchr(0, bytes) IN
    IF Len(bytes) = 0 \/ bytes[Len(bytes)] # 0
    THEN [tag |-> "Err", kind |-> "NotNulTerminated"]
    ELSE IF nul_pos.v + 1 # Len(bytes)
         THEN [tag |-> "Err", kind |-> "InteriorNul", pos |-> nul_pos.v]
         ELSE [tag |-> "Ok",
               val |-> from_bytes_with_nul_unchecked(signed, bytes)]

\* from_bytes_with_nul taking a slice with no zero at all for a C string.
from_bytes_with_nul_unterminated_ok(signed, bytes) ==
    LET nul_pos == memchr(0, bytes) IN
    IF nul_pos.some /\ nul_pos.v + 1 # Len(bytes)
    THEN [tag |-> "Err", kind |-> "InteriorNul", pos |-> nul_pos.v]
    ELSE [tag |-> "Ok", val |-> from_bytes_with_nul_unchecked(signed, bytes)]

\* CStr::from_bytes_with_nul
from_bytes_with_nul(signed, bytes) ==
    LET nul_pos == memchr(0, bytes) IN
    IF nul_pos.some
    THEN IF nul_pos.v + 1 # Len(bytes)
         THEN [tag |-> "Err", kind |-> "InteriorNul", pos |-> nul_pos.v]
         ELSE [tag |-> "Ok",
               val |-> from_bytes_with_nul_unchecked(signed, bytes)]
    ELSE [tag |-> "Err", kind |-> "NotNulTerminated"]

\* to_bytes_with_nul handing out the c_char values as they are.
to_bytes_with_nul_c_char(s) == s.inner

to_bytes_with_nul(s) == cast_to_u8(s.inner)

\* &bytes[..bytes.len() - 1], panicking on an empty slice as as_bytes does.
to_bytes(s) ==
    LET bytes == to_bytes_with_nul(s) IN
    IF Len(bytes) = 0 THEN [panic |-> TRUE]
    ELSE [panic |-> FALSE, v |-> SubSeq(bytes, 1, Len(bytes) - 1)]

\* Deref for CString.
deref(signed, c) == from_bytes_with_nul_unchecked(signed, as_bytes_with_nul(c))

\* to_owned copying to_bytes(), the bytes without the terminator.
to_owned_to_bytes(s) ==
    CString(IF to_bytes(s).panic THEN <<>> ELSE to_bytes(s).v)

\* ToOwned for CStr: the bytes with the terminator, copied into a new box.
to_owned(s) == CString(to_bytes_with_nul(s))

\* --------------------------------------------------------------- fmt::Debug

\* What an EscapeDefault yields to next() until it returns None.
RECURSIVE collect(_)
collect(e) ==
    LET r == EscapeDefault_next(e) IN
    IF r.item.some THEN <<r.item.v>> \o collect(r.iter) ELSE <<>>

\* bytes.iter().flat_map(|&b| ascii::escape_default(b)), from index i on.
RECURSIVE flat_map_escape_default(_, _)
flat_map_escape_default(bytes, i) ==
    IF i > Len(bytes) THEN <<>>
    ELSE collect(escape_default(bytes[i]))
         \o flat_map_escape_default(bytes, i + 1)

\* Debug for CStr escaping to_bytes_with_nul() instead of to_bytes().
CStr_fmt_with_nul(s) ==
    [panic |-> FALSE,
     v |-> <<34>> \o flat_map_escape_default(to_bytes_with_nul(s), 1)
           \o <<34>>]

\* <CStr as fmt::Debug>::fmt: the characters written, as code points.
CStr_fmt(s) ==
    LET b == to_bytes(s) IN
    IF b.panic THEN [panic |-> TRUE]
    ELSE [panic |-> FALSE,
          v |-> <<34>> \o flat_map_escape_default(b.v, 1) \o <<34>>]

\* <CString as fmt::Debug>::fmt: fmt::Debug::fmt(&**self, f)
CString_fmt(signed, c) == CStr_fmt(deref(signed, c))

\* --------------------------------------------------------- text of a CStr

\* CStr::to_str: str::from_utf8(self.to_bytes())
to_str(s) ==
    LET b == to_bytes(s) IN
    IF b.panic THEN [panic |-> TRUE]
    ELSE IF from_utf8(b.v) THEN [panic |-> FALSE, tag |-> "Ok", val |-> b.v]
    ELSE [panic |-> FALSE, tag |-> "Err"]

\* U+FFFD REPLACEMENT CHARACTER, in UTF-8.
REPLACEMENT == <<239, 191, 189>>

\* The length of the chunk of s at i that the lossy decoder takes in one
\* step, and whether it is a character: a whole well-formed sequence, or the
\* lead byte with the continuation bytes that matched before the one that
\* did not.
utf8_chunk(s, i) ==
    LET b == s[i]
        at(k) == IF i + k <= Len(s) THEN s[i + k] ELSE 0
        second3 == IF b = 224 THEN at(1) \in 160..191
                   ELSE IF b = 237 THEN at(1) \in 128..159
                   ELSE utf8_cont(at(1))
        second4 == IF b = 240 THEN at(1) \in 144..191
                   ELSE IF b = 244 THEN at(1) \in 128..143
                   ELSE utf8_cont(at(1))
    IN IF b < 128 THEN [valid |-> TRUE, len |-> 1]
       ELSE IF b \in 194..223
       THEN IF utf8_cont(at(1)) THEN [valid |-> TRUE, len |-> 2]
            ELSE [valid |-> FALSE, len |-> 1]
       ELSE IF b \in 224..239
       THEN IF ~second3 THEN [valid |-> FALSE, len |-> 1]
            ELSE IF ~utf8_cont(at(2)) THEN [valid |-> FALSE, len |-> 2]
            ELSE [valid |-> TRUE, len |-> 3]
       ELSE IF b \in 240..244
       THEN IF ~second4 THEN [valid |-> FALSE, len |-> 1]
            ELSE IF ~utf8_cont(at(2)) THEN [valid |-> FALSE, len |-> 2]
            ELSE IF ~utf8_cont(at(3)) THEN [valid |-> FALSE, len |-> 3]
            ELSE [valid |-> TRUE, len |-> 4]
       ELSE [valid |-> FALSE, len |-> 1]

\* The string from_utf8_lossy builds when it has to: the well-formed
\* chunks pushed as they are, REPLACEMENT pushed for each broken one.
RECURSIVE lossy_from(_, _)
lossy_from(s, i) ==
    IF i > Len(s) THEN <<>>
    ELSE LET c == utf8_chunk(s, i) IN
         (IF c.valid THEN SubSeq(s, i, i + c.len - 1) ELSE REPLACEMENT)
         \o lossy_from(s, i + c.len)

\* String::from_utf8_lossy: the slice borrowed when all of it is
\* well-formed, an owned string otherwise.
from_utf8_lossy(v) ==
    IF from_utf8(v) THEN [cow |-> "Borrowed", v |-> v]
    ELSE [cow |-> "Owned", v |-> lossy_from(v, 1)]

\* to_string_lossy decoding to_bytes_with_nul() instead of to_bytes().
to_string_lossy_with_nul(s) ==
    [panic |-> FALSE, r |-> from_utf8_lossy(to_bytes_with_nul(s))]

\* CStr::to_string_lossy: String::from_utf8_lossy(self.to_bytes())
to_string_lossy(s) ==
    LET b == to_bytes(s) IN
    IF b.panic THEN [panic |-> TRUE]
    ELSE [panic |-> FALSE, r |-> from_utf8_lossy(b.v)]

\* -------------------------------------------------- comparison and hashing

\* Lexicographic comparison of two slices of integers (Ord for [T]).
RECURSIVE slice_cmp_from(_, _, _)
slice_cmp_from(x, y, i) ==
    IF i > Len(x) \/ i > Len(y)
    THEN IF Len(x) < Len(y) THEN "Less"
         ELSE IF Len(x) > Len(y) THEN "Greater" ELSE "Equal"
    ELSE IF x[i] < y[i] THEN "Less"
    ELSE IF x[i] > y[i] THEN "Greater"
    ELSE slice_cmp_from(x, y, i + 1)

slice_cmp(x, y) == slice_cmp_from(x, y, 1)

slice_eq(x, y) == Len(x) = Len(y) /\ \A i \in 1..Len(x) : x[i] = y[i]

\* derive(PartialEq, Eq, PartialOrd, Ord) for CString: on the field inner.
CString_eq(a, b) == slice_eq(a.inner, b.inner)

CString_cmp(a, b) == slice_cmp(a.inner, b.inner)

\* PartialEq / Ord for CStr: on to_bytes().
CStr_eq(a, b) ==
    LET x == to_bytes(a)
        y == to_bytes(b)
    IN IF x.panic \/ y.panic THEN "panic"
       ELSE IF slice_eq(x.v, y.v) THEN "true" ELSE "false"

\* Ord for CStr comparing the c_char elements without the cast to u8.
CStr_cmp_c_char(a, b) ==
    IF Len(a.inner) = 0 \/ Len(b.inner) = 0 THEN "panic"
    ELSE slice_cmp(SubSeq(a.inner, 1, Len(a.inner) - 1),
                   SubSeq(b.inner, 1, Len(b.inner) - 1))

CStr_cmp(a, b) ==
    LET x == to_bytes(a)
        y == to_bytes(b)
    IN IF x.panic \/ y.panic THEN "panic" ELSE slice_cmp(x.v, y.v)

\* What Hash for a slice of one-byte integers feeds the hasher: the length,
\* then the elements as raw bytes.
hash_slice(s) == <<Len(s)>> \o cast_to_u8(s)

\* derive(Hash) for CString and for CStr: the one field, inner.
CString_hash(c) == hash_slice(c.inner)

\* Hash for CStr written over to_bytes(), the way its equality is.
CStr_hash_to_bytes(s) ==
    IF to_bytes(s).panic THEN <<>> ELSE hash_slice(to_bytes(s).v)

CStr_hash(s) == hash_slice(s.inner)

\* -------------------------------------------------------------------- heap

Addr == 1..MaxAllocs

\* An address the allocator has not handed out yet.  Of an allocation:
\*   bytes      the memory at the address;
\*   len        the length of the slice its owner holds;
\*   owner      the value that owns it and will free it: a CString, a
\*              Box<CStr>, a String, a Box<[u8]> in passing, or none;
\*   raw        a pointer from into_raw is outstanding;
\*   frees      how many times it was given back to the allocator;
\*   sent       as_bytes_with_nul() as it was at the last into_raw;
\*   reclaimed  its owner is the CString from_raw made of that pointer.
Unused ==
    [used |-> FALSE, bytes |-> <<>>, len |-> 0, owner |-> "none",
     raw |-> FALSE, frees |-> 0, sent |-> <<>>, reclaimed |-> FALSE]

\* The slice the owner of the allocation at a holds.
slice_at(h, a) == SubSeq(h[a].bytes, 1, h[a].len)

cstring_at(h, a) == CString(slice_at(h, a))

FreeAddrs(h) == {a \in Addr : ~h[a].used}

NextAddr(h) == CHOOSE a \in FreeAddrs(h) : \A b \in FreeAddrs(h) : a <= b

\* A new boxed slice holding `bytes`, owned by a value of kind `owner`.
alloc(h, bytes, owner) ==
    [h EXCEPT ![NextAddr(h)] =
        [Unused EXCEPT !.used = TRUE, !.bytes = bytes, !.len = Len(bytes),
                       !.owner = owner]]

\* The allocation at a given back to the allocator: no slice over it is
\* left, the bytes stay where they were.
dealloc(h, a) ==
    [h EXCEPT ![a].owner = "none", ![a].len = 0, ![a].frees = @ + 1,
              ![a].sent = <<>>, ![a].reclaimed = FALSE]

\* The owner at a rewrites its slice in place (same allocation).
store(h, a, inner, owner) ==
    [h EXCEPT ![a].bytes = inner \o SubSeq(@, Len(inner) + 1, Len(@)),
              ![a].len = Len(inner),
              ![a].owner = owner]

\* strlen scanning the whole allocation and counting up to its last zero.
strlen_to_last_zero(mem) ==
    LET Z == {i \in 0..(Len(mem) - 1) : mem[i + 1] = 0} IN
    IF Z = {} THEN [ub |-> TRUE]
    ELSE [ub |-> FALSE, n |-> CHOOSE i \in Z : \A j \in Z : j <= i]

\* strlen: the count of bytes before the first zero at and after p; a scan
\* that leaves the allocation is undefined.
RECURSIVE strlen_from(_, _)
strlen_from(mem, n) ==
    IF n >= Len(mem) THEN [ub |-> TRUE]
    ELSE IF mem[n + 1] # 0 THEN strlen_from(mem, n + 1)
    ELSE [ub |-> FALSE, n |-> n]

strlen(mem) == strlen_from(mem, 0)

\* CStr::from_ptr over the memory at ptr: the view over strlen(ptr) + 1
\* bytes.
from_ptr(signed, mem) ==
    LET len == strlen(mem) IN
    IF len.ub THEN [ub |-> TRUE]
    ELSE [ub |-> FALSE,
          v |-> from_bytes_with_nul_unchecked(
                    signed, SubSeq(mem, 1, len.n + 1))]

\* The box freed with no Drop for CString run before.
drop_freeing_only(h, a) == dealloc(h, a)

\* Drop for CString, then the drop of its field: the first byte zeroed, the
\* box freed.
drop(h, a) == dealloc([h EXCEPT ![a].bytes = [@ EXCEPT ![1] = 0]], a)

\* into_inner running the destructor of self instead of forgetting it.
into_inner_dropping(h, a) == [drop(h, a) EXCEPT ![a].owner = "Box<[u8]>"]

\* CString::into_inner: the box read out of self, self forgotten.
into_inner(h, a) ==
    [h EXCEPT ![a].owner = "Box<[u8]>",
              ![a].sent = <<>>, ![a].reclaimed = FALSE]

\* Box::into_raw: the box gives up the allocation, a raw pointer remains.
Box_into_raw(h, a) == [h EXCEPT ![a].owner = "none", ![a].raw = TRUE]

\* into_raw handing out the pointer while self is dropped at the end of
\* the call.
into_raw_dropping(h, a) ==
    [drop(h, a) EXCEPT ![a].raw = TRUE, ![a].sent = slice_at(h, a)]

\* CString::into_raw
into_raw(h, a) ==
    [Box_into_raw(into_inner(h, a), a) EXCEPT
        ![a].sent = slice_at(h, a), ![a].reclaimed = FALSE]

\* from_raw taking strlen(ptr) for the length of the slice.
from_raw_no_nul(h, p) ==
    [h EXCEPT ![p].owner = "CString", ![p].raw = FALSE,
              ![p].len = strlen(h[p].bytes).n, ![p].reclaimed = TRUE]

\* CString::from_raw: a box over strlen(ptr) + 1 bytes at ptr.
from_raw(h, p) ==
    [h EXCEPT ![p].owner = "CString", ![p].raw = FALSE,
              ![p].len = strlen(h[p].bytes).n + 1, ![p].reclaimed = TRUE]

\* --------------------------------------------------------------- variables

VARIABLES
    signed,     \* whether c_char is i8 on the target
    in1, in2,   \* SpecPure: the drawn inputs
    ret,        \* SpecPure: what the last call returned
    heap,       \* Spec: the allocations
    fault,      \* Spec: "none", or "panic" / "ub" once the program has one
    byte,       \* SpecEscape: the byte escaped
    esc,        \* SpecEscape: the EscapeDefault iterator
    front,      \* SpecEscape: what next() has yielded, in order
    back,       \* SpecEscape: what next_back() has yielded, in order
    got         \* SpecEscape: what the last call on the iterator returned

vars == <<signed, in1, in2, ret, heap, fault, byte, esc, front, back, got>>

Idle == [op |-> "none"]

\* The parts of the state a specification leaves alone.
NoCalls == in1 = <<>> /\ in2 = <<>> /\ ret = Idle

NoHeap == heap = [a \in Addr |-> Unused] /\ fault = "none"

NoEscape ==
    byte = 0 /\ esc = Idle /\ front = <<>> /\ back = <<>> /\ got = None

\* -------------------------------------------------------------------- Spec

\* The heap operations that go through a view make the cast to [c_char]
\* under either definition of c_char, so signed is not drawn here.
Init ==
    /\ signed = FALSE
    /\ NoCalls
    /\ NoHeap
    /\ NoEscape

Running == fault = "none"

CanAlloc == FreeAddrs(heap) # {}

Pure == UNCHANGED <<signed, in1, in2, ret, byte, esc, front, back, got>>

\* CString::new(b): the buffer on success, nothing allocated on NulError.
New(b) ==
    /\ Running
    /\ CanAlloc
    /\ LET r == new(b) IN
         heap' = IF r.tag = "Ok" THEN alloc(heap, r.val.inner, "CString")
                 ELSE heap
    /\ UNCHANGED fault
    /\ Pure

\* CString::default(): the view from_ptr gives over the static [0], owned.
Default ==
    /\ Running
    /\ CanAlloc
    /\ \E sg \in BOOLEAN :
         LET SLICE == <<0>>
             len == strlen(SLICE).n
             a == from_bytes_with_nul_unchecked(sg, SubSeq(SLICE, 1, len + 1))
         IN heap' = alloc(heap, to_owned(a).inner, "CString")
    /\ UNCHANGED fault
    /\ Pure

\* c.clone() of the CString at a.
Clone(a) ==
    /\ Running
    /\ CanAlloc
    /\ heap[a].owner = "CString"
    /\ heap' = alloc(heap, clone(cstring_at(heap, a)).inner, "CString")
    /\ UNCHANGED fault
    /\ Pure

\* CStr::from_bytes_with_nul(b) and, of the view it gives, to_owned().
ToOwned(b) ==
    /\ Running
    /\ CanAlloc
    /\ \E sg \in BOOLEAN :
         LET r == from_bytes_with_nul(sg, b) IN
         heap' = IF r.tag = "Ok"
                 THEN alloc(heap, to_owned(r.val).inner, "CString")
                 ELSE heap
    /\ UNCHANGED fault
    /\ Pure

\* CStr::from_bytes_with_nul(b) and, of the view it gives, Box::from.
BoxFrom(b) ==
    /\ Running
    /\ CanAlloc
    /\ \E sg \in BOOLEAN :
         LET r == from_bytes_with_nul(sg, b) IN
         heap' = IF r.tag = "Ok"
                 THEN alloc(heap, to_bytes_with_nul(r.val), "Box<CStr>")
                 ELSE heap
    /\ UNCHANGED fault
    /\ Pure

\* c.into_boxed_c_str(): the same allocation as a Box<CStr>.
IntoBoxedCStr(a) ==
    /\ Running
    /\ heap[a].owner = "CString"
    /\ heap' = [into_inner(heap, a) EXCEPT ![a].owner = "Box<CStr>"]
    /\ UNCHANGED fault
    /\ Pure

\* boxed.into_c_string(): the same allocation as a CString.
IntoCString(a) ==
    /\ Running
    /\ heap[a].owner = "Box<CStr>"
    /\ heap' = [heap EXCEPT ![a].owner = "CString"]
    /\ UNCHANGED fault
    /\ Pure

\* debug_assert_eq!(_nul, Some(0u8)) in into_bytes: whether it fails, in a
\* build with debug assertions.
IntoBytesAsserts(a, debug_assertions) ==
    debug_assertions /\ into_bytes_nul(cstring_at(heap, a)) # Some(0)

\* c.into_string(): the vector of the box, popped, becomes the String, or
\* comes back in the IntoStringError as a CString again.
IntoString(a) ==
    /\ Running
    /\ heap[a].owner = "CString"
    /\ \E debug_assertions \in BOOLEAN :
         IF IntoBytesAsserts(a, debug_assertions)
         THEN fault' = "panic" /\ UNCHANGED heap
         ELSE /\ LET r == into_string(cstring_at(heap, a))
                     h == into_inner(heap, a)
                 IN heap' = IF r.tag = "Ok"
                            THEN store(h, a, r.val, "String")
                            ELSE store(h, a, r.inner.inner, "CString")
              /\ UNCHANGED fault
    /\ Pure

\* c.into_bytes(): the vector of the box, popped.
IntoBytes(a) ==
    /\ Running
    /\ heap[a].owner = "CString"
    /\ \E debug_assertions \in BOOLEAN :
         IF IntoBytesAsserts(a, debug_assertions)
         THEN fault' = "panic" /\ UNCHANGED heap
         ELSE /\ heap' = store(into_inner(heap, a), a,
                               into_bytes(cstring_at(heap, a)), "Vec<u8>")
              /\ UNCHANGED fault
    /\ Pure

\* c.into_bytes_with_nul(): the vector of the box.
IntoBytesWithNul(a) ==
    /\ Running
    /\ heap[a].owner = "CString"
    /\ heap' = [into_inner(heap, a) EXCEPT ![a].owner = "Vec<u8>"]
    /\ UNCHANGED fault
    /\ Pure

\* c.as_bytes() and c.as_bytes_with_nul(): reads of the buffer.
AsBytes(a) ==
    /\ Running
    /\ heap[a].owner = "CString"
    /\ fault' = IF as_bytes(cstring_at(heap, a)).panic THEN "panic" ELSE fault
    /\ UNCHANGED heap
    /\ Pure

\* (&*c).to_bytes(), and to_bytes() on a boxed view: reads through the view.
ToBytes(a) ==
    /\ Running
    /\ heap[a].owner \in {"CString", "Box<CStr>"}
    /\ \E sg \in BOOLEAN :
         fault' = IF to_bytes(deref(sg, cstring_at(heap, a))).panic
                  THEN "panic" ELSE fault
    /\ UNCHANGED heap
    /\ Pure

\* c.into_raw()
IntoRaw(a) ==
    /\ Running
    /\ heap[a].owner = "CString"
    /\ heap' = into_raw(heap, a)
    /\ UNCHANGED fault
    /\ Pure

\* CString::from_raw(p), p a pointer from into_raw not reclaimed since.
FromRaw(p) ==
    /\ Running
    /\ heap[p].raw
    /\ IF strlen(heap[p].bytes).ub
       THEN fault' = "ub" /\ UNCHANGED heap
       ELSE heap' = from_raw(heap, p) /\ UNCHANGED fault
    /\ Pure

\* A CString goes out of scope.
Drop(a) ==
    /\ Running
    /\ heap[a].owner = "CString"
    /\ IF heap[a].len = 0
       THEN fault' = "ub" /\ UNCHANGED heap
       ELSE heap' = drop(heap, a) /\ UNCHANGED fault
    /\ Pure

\* A Box<CStr>, a String or a Vec<u8> goes out of scope: freed as it is.
DropOther(a) ==
    /\ Running
    /\ heap[a].owner \in {"Box<CStr>", "String", "Vec<u8>"}
    /\ heap' = dealloc(heap, a)
    /\ UNCHANGED fault
    /\ Pure

Next ==
    \/ \E b \in HeapVecs : New(b)
    \/ Default
    \/ \E a \in Addr : Clone(a)
    \/ \E b \in HeapSlices : ToOwned(b)
    \/ \E b \in HeapSlices : BoxFrom(b)
    \/ \E a \in Addr : IntoBoxedCStr(a)
    \/ \E a \in Addr : IntoCString(a)
    \/ \E a \in Addr : IntoString(a)
    \/ \E a \in Addr : IntoRaw(a)
    \/ \E p \in Addr : FromRaw(p)
    \/ \E a \in Addr : Drop(a)
    \/ \E a \in Addr : DropOther(a)

Spec == Init /\ [][Next]_vars

\* ---------------------------------------------------------------- SpecSafe

\* The operations a program without `unsafe` can reach: the constructors,
\* the conversions, the reads and the destructors.
NextSafe ==
    \/ \E b \in HeapVecs : New(b)
    \/ Default
    \/ \E a \in Addr : Clone(a)
    \/ \E b \in HeapSlices : ToOwned(b)
    \/ \E b \in HeapSlices : BoxFrom(b)
    \/ \E a \in Addr : IntoBoxedCStr(a)
    \/ \E a \in Addr : IntoCString(a)
    \/ \E a \in Addr : IntoString(a)
    \/ \E a \in Addr : IntoBytes(a)
    \/ \E a \in Addr : IntoBytesWithNul(a)
    \/ \E a \in Addr : AsBytes(a)
    \/ \E a \in Addr : ToBytes(a)
    \/ \E a \in Addr : Drop(a)
    \/ \E a \in Addr : DropOther(a)

SpecSafe == Init /\ [][NextSafe]_vars

\* -------------------------------------------------------------- SpecUnsafe

\* unsafe { CString::from_vec_unchecked(v) }, v any vector.
FromVecUnchecked(v) ==
    /\ Running
    /\ CanAlloc
    /\ heap' = alloc(heap, from_vec_unchecked(v).inner, "CString")
    /\ UNCHANGED fault
    /\ Pure

\* unsafe { CStr::from_bytes_with_nul_unchecked(b) }.to_owned(), b any slice.
ToOwnedUnchecked(b) ==
    /\ Running
    /\ CanAlloc
    /\ \E sg \in BOOLEAN :
         LET v == from_bytes_with_nul_unchecked(sg, b) IN
         heap' = alloc(heap, to_owned(v).inner, "CString")
    /\ UNCHANGED fault
    /\ Pure

\* Box::from(unsafe { CStr::from_bytes_with_nul_unchecked(b) }), b any slice.
BoxFromUnchecked(b) ==
    /\ Running
    /\ CanAlloc
    /\ \E sg \in BOOLEAN :
         LET v == from_bytes_with_nul_unchecked(sg, b) IN
         heap' = alloc(heap, to_bytes_with_nul(v), "Box<CStr>")
    /\ UNCHANGED fault
    /\ Pure

\* Every operation, the unchecked constructors on arbitrary bytes included.
NextUnsafe ==
    \/ Next
    \/ NextSafe
    \/ \E v \in HeapVecs : FromVecUnchecked(v)
    \/ \E b \in HeapSlices : ToOwnedUnchecked(b)
    \/ \E b \in HeapSlices : BoxFromUnchecked(b)

SpecUnsafe == Init /\ [][NextUnsafe]_vars

\* ---------------------------------------------------------------- SpecPure

InitPure ==
    /\ signed \in BOOLEAN
    /\ in1 \in ByteSeqs
    /\ in2 \in ByteSeqs
    /\ ret = Idle
    /\ NoHeap
    /\ NoEscape

\* CString::new(in1)
CallNew ==
    /\ ret' = [op |-> "new", r |-> new(in1)]
    /\ UNCHANGED <<signed, in1, in2, heap, fault, byte, esc, front, back, got>>

\* CStr::from_bytes_with_nul(in1)
CallFromBytesWithNul ==
    /\ ret' = [op |-> "from_bytes_with_nul",
               r |-> from_bytes_with_nul(signed, in1)]
    /\ UNCHANGED <<signed, in1, in2, heap, fault, byte, esc, front, back, got>>

\* tests::equal_hash: the view over in1 ++ [0] against CString::new(in1),
\* compared through deref and hashed.
CallEqualHash ==
    LET v == from_bytes_with_nul(signed, Append(in1, 0))
        c == new(in1)
    IN /\ ret' = IF v.tag = "Ok" /\ c.tag = "Ok"
                 THEN [op |-> "equal_hash", built |-> TRUE,
                       eq |-> CStr_eq(v.val, deref(signed, c.val)),
                       view_hash |-> CStr_hash(v.val),
                       owned_hash |-> CString_hash(c.val)]
                 ELSE [op |-> "equal_hash", built |-> FALSE]
       /\ UNCHANGED <<signed, in1, in2, heap, fault, byte, esc, front, back, got>>

\* The buffers owning in1 and in2, compared as CStrings and, through deref,
\* as CStrs.
CallCompare ==
    LET a == from_vec_unchecked(in1)
        b == from_vec_unchecked(in2)
    IN /\ ret' = [op |-> "compare",
                  owned_eq |-> CString_eq(a, b),
                  owned_cmp |-> CString_cmp(a, b),
                  view_eq |-> CStr_eq(deref(signed, a), deref(signed, b)),
                  view_cmp |-> CStr_cmp(deref(signed, a), deref(signed, b))]
       /\ UNCHANGED <<signed, in1, in2, heap, fault, byte, esc, front, back, got>>

\* The view over the slice in1, whatever it holds, and to_owned() of it.
CallToOwned ==
    LET v == from_bytes_with_nul_unchecked(signed, in1) IN
    /\ ret' = [op |-> "to_owned", view |-> v, owned |-> to_owned(v)]
    /\ UNCHANGED <<signed, in1, in2, heap, fault, byte, esc, front, back, got>>

\* CString::from_vec_unchecked(in1), whatever in1 holds, and its bytes read
\* back.
CallFromVecUnchecked ==
    LET c == from_vec_unchecked(in1) IN
    /\ ret' = [op |-> "from_vec_unchecked",
               with_nul |-> as_bytes_with_nul(c),
               bytes |-> as_bytes(c)]
    /\ UNCHANGED <<signed, in1, in2, heap, fault, byte, esc, front, back, got>>

\* unsafe { CStr::from_ptr(p) }, p the address of memory holding in1: the
\* length scanned and the bytes of the view.
CallFromPtr ==
    LET len == strlen(in1)
        r == from_ptr(signed, in1)
    IN /\ ret' = IF r.ub THEN [op |-> "from_ptr", ub |-> TRUE]
                 ELSE [op |-> "from_ptr", ub |-> FALSE, strlen |-> len.n,
                       to_bytes |-> to_bytes(r.v),
                       to_bytes_with_nul |-> to_bytes_with_nul(r.v)]
       /\ UNCHANGED <<signed, in1, in2, heap, fault, byte, esc, front, back, got>>

\* unsafe { CString::from_raw(CString::from_vec_unchecked(in1).into_raw()) }:
\* the buffer exported and the buffer reclaimed.
CallFromRaw ==
    LET h0 == [a \in Addr |-> Unused]
        p == NextAddr(h0)
        h1 == alloc(h0, from_vec_unchecked(in1).inner, "CString")
        h2 == into_raw(h1, p)
        h3 == from_raw(h2, p)
    IN /\ ret' = [op |-> "from_raw",
                  exported |-> as_bytes_with_nul(cstring_at(h1, p)),
                  strlen |-> strlen(h2[p].bytes).n,
                  reclaimed |-> as_bytes_with_nul(cstring_at(h3, p))]
       /\ UNCHANGED <<signed, in1, in2, heap, fault, byte, esc, front, back, got>>

NextPure ==
    \/ CallNew
    \/ CallFromBytesWithNul
    \/ CallEqualHash
    \/ CallCompare
    \/ CallToOwned
    \/ CallFromVecUnchecked
    \/ CallFromPtr
    \/ CallFromRaw

SpecPure == InitPure /\ [][NextPure]_vars

\* ---------------------------------------------------------------- SpecText

InitText ==
    /\ signed \in BOOLEAN
    /\ in1 \in TextSeqs
    /\ in2 = <<>>
    /\ ret = Idle
    /\ NoHeap
    /\ NoEscape

\* format!("{:?}", c) and format!("{:?}", &*c) for the buffer owning in1, and
\* format!("{:?}", v) for the view over in1 ++ [0].
CallDebug ==
    LET c == from_vec_unchecked(in1)
        v == from_bytes_with_nul_unchecked(signed, Append(in1, 0))
    IN /\ ret' = [op |-> "fmt",
                  owned |-> CString_fmt(signed, c),
                  borrowed |-> CStr_fmt(deref(signed, c)),
                  view |-> CStr_fmt(v)]
       /\ UNCHANGED <<signed, in1, in2, heap, fault, byte, esc, front, back, got>>

\* The buffer owning in1 turned into a String: c.into_string(), and
\* into_cstring() on the error.
CallIntoString ==
    LET c == from_vec_unchecked(in1)
        r == into_string(c)
    IN /\ ret' = IF r.tag = "Ok"
                 THEN [op |-> "into_string", tag |-> "Ok",
                       of |-> c, string |-> r.val]
                 ELSE [op |-> "into_string", tag |-> "Err",
                       of |-> c, back |-> into_cstring(r)]
       /\ UNCHANGED <<signed, in1, in2, heap, fault, byte, esc, front, back, got>>

\* The view over in1 ++ [0]: to_str() and to_string_lossy() of it.
CallToStringLossy ==
    LET v == from_bytes_with_nul_unchecked(signed, Append(in1, 0)) IN
    /\ ret' = [op |-> "to_string_lossy",
               bytes |-> to_bytes(v),
               str |-> to_str(v),
               lossy |-> to_string_lossy(v)]
    /\ UNCHANGED <<signed, in1, in2, heap, fault, byte, esc, front, back, got>>

NextText ==
    \/ CallDebug
    \/ CallIntoString
    \/ CallToStringLossy

SpecText == InitText /\ [][NextText]_vars

\* ----------------------------------------------------- properties of Spec

Owned(a) == heap[a].owner # "none"

Exported(a) == heap[a].raw

Released(a) == heap[a].frees > 0

BoolToNat(p) == IF p THEN 1 ELSE 0

\* C5: under the safe operations every live CString buffer has length at
\* least 1, ends with a zero byte and has no other zero byte.
C5_TerminatorInvariant ==
    \A a \in Addr :
        heap[a].owner = "CString" =>
            LET inner == as_bytes_with_nul(cstring_at(heap, a)) IN
            /\ Len(inner) >= 1
            /\ inner[Len(inner)] = 0
            /\ \A i \in 1..(Len(inner) - 1) : inner[i] # 0

\* A CString that came back from a raw pointer next to an empty one.
C5_Witness ==
    /\ heap[1].owner = "CString"
    /\ heap[1].reclaimed
    /\ slice_at(heap, 1) = <<200, 1, 0>>
    /\ heap[2].owner = "CString"
    /\ slice_at(heap, 2) = <<0>>

\* C6: the CString that from_raw makes of the pointer into_raw returned has
\* the as_bytes_with_nul() the exported CString had.
C6_RawRoundTrip ==
    \A a \in Addr :
        (heap[a].owner = "CString" /\ heap[a].reclaimed) =>
            as_bytes_with_nul(cstring_at(heap, a)) = heap[a].sent

C6_Witness ==
    /\ heap[1].owner = "CString"
    /\ heap[1].reclaimed
    /\ heap[1].sent = <<1, 200, 0>>

\* C7: every allocation is in exactly one of Owned-here, Exported and
\* Released; only into_raw takes it from Owned-here to Exported, only
\* from_raw from Exported to Owned-here; it is released from Owned-here
\* only, and once.
C7_OneState ==
    \A a \in Addr :
        heap[a].used =>
            /\ BoolToNat(Owned(a)) + BoolToNat(Exported(a))
                   + BoolToNat(Released(a)) = 1
            /\ heap[a].frees <= 1

C7_Step ==
    \A a \in Addr :
        /\ (Owned(a) /\ Exported(a)') => IntoRaw(a)
        /\ (Exported(a) /\ Owned(a)') => FromRaw(a)
        /\ (~Released(a) /\ Released(a)') => Owned(a)
        /\ Released(a) => (Released(a)' /\ heap'[a].frees = heap[a].frees)
        /\ Exported(a) => ~Released(a)'

C7_OwnershipHandoff == [](C7_OneState) /\ [][C7_Step]_vars

\* One allocation exported and reclaimed, the other released.
C7_Witness ==
    /\ Owned(1)
    /\ heap[1].reclaimed
    /\ heap[1].sent = <<200, 0>>
    /\ Released(2)

\* C19: while a pointer from into_raw is outstanding the destructor has not
\* run: the memory holds the as_bytes_with_nul() of the exported buffer, a
\* payload followed by one zero byte, and is not released; and no step but
\* from_raw on that address changes the allocation, so that an address never
\* reclaimed stays allocated.
C19_OneState ==
    \A a \in Addr :
        Exported(a) =>
            /\ ~Released(a)
            /\ ~Owned(a)
            /\ heap[a].bytes = heap[a].sent
            /\ Len(heap[a].sent) >= 1
            /\ \A i \in 1..Len(heap[a].sent) :
                  (heap[a].sent[i] = 0) <=> (i = Len(heap[a].sent))

C19_Step ==
    \A a \in Addr :
        (Exported(a) /\ heap'[a] # heap[a]) => FromRaw(a)

C19_ExportedIsLeftAlone == [](C19_OneState) /\ [][C19_Step]_vars

\* A buffer still exported, untouched, after another allocation was made and
\* released.
C19_Witness ==
    /\ Exported(1)
    /\ heap[1].bytes = <<200, 1, 0>>
    /\ Released(2)

\* C13: no sequence of operations on buffers made by the checked
\* constructors aborts: the len - 1 slicing of as_bytes and to_bytes never
\* underflows, the byte into_bytes pops is always the terminator, and the
\* write of the destructor to index 0 is always in bounds.
C13_NoAbort == fault = "none"

\* A buffer has been read, turned into the vector of its payload, and
\* another buffer has been destroyed, with no fault.
C13_Witness ==
    /\ fault = "none"
    /\ heap[1].owner = "Vec<u8>"
    /\ slice_at(heap, 1) = <<200, 1>>
    /\ Released(2)
    /\ heap[2].bytes = <<0>>

\* C18: the step that destroys a CString leaves the memory it releases
\* with a first byte of 0 and every other byte as it was, whatever the
\* payload, the empty one included.
C18_Step ==
    \A a \in Addr :
        (heap[a].owner = "CString" /\ Released(a)') =>
            /\ Len(heap'[a].bytes) = Len(heap[a].bytes)
            /\ heap'[a].bytes[1] = 0
            /\ \A i \in 2..Len(heap[a].bytes) :
                  heap'[a].bytes[i] = heap[a].bytes[i]

C18_DropZeroesFirstByte == [][C18_Step]_vars

\* A destroyed buffer whose payload was two bytes next to a destroyed empty
\* one.
C18_Witness ==
    /\ Released(1)
    /\ heap[1].bytes = <<0, 200, 0>>
    /\ Released(2)
    /\ heap[2].bytes = <<0>>

\* ------------------------------------------------ properties of SpecUnsafe

\* C17: whatever the unsafe functions are given, Invariant 1 stands: every
\* live CString buffer has a length of at least one and ends with a zero
\* byte (only Invariant 2, a single zero byte, can be lost).
C17_InvariantOneStands ==
    \A a \in Addr :
        heap[a].owner = "CString" =>
            /\ heap[a].len >= 1
            /\ slice_at(heap, a)[heap[a].len] = 0

\* -------------------------------------------------------------- SpecEscape

InitEscape ==
    /\ signed = FALSE
    /\ NoCalls
    /\ NoHeap
    /\ byte \in U8
    /\ esc = escape_default(byte)
    /\ front = <<>>
    /\ back = <<>>
    /\ got = None

\* esc.next()
EscNext ==
    LET r == EscapeDefault_next(esc) IN
    /\ esc' = r.iter
    /\ got' = r.item
    /\ front' = IF r.item.some THEN Append(front, r.item.v) ELSE front
    /\ UNCHANGED <<signed, in1, in2, ret, heap, fault, byte, back>>

\* esc.next_back()
EscNextBack ==
    LET r == EscapeDefault_next_back(esc) IN
    /\ esc' = r.iter
    /\ got' = r.item
    /\ back' = IF r.item.some THEN Append(back, r.item.v) ELSE back
    /\ UNCHANGED <<signed, in1, in2, ret, heap, fault, byte, front>>

NextEscape ==
    \/ EscNext
    \/ EscNextBack

SpecEscape == InitEscape /\ [][NextEscape]_vars

\* ------------------------------------------------- properties of SpecPure

HasZero(b) == \E i \in 1..Len(b) : b[i] = 0

\* 0-based offset of the first zero of a sequence that has one.
FirstZero(b) ==
    CHOOSE p \in 0..(Len(b) - 1) :
        b[p + 1] = 0 /\ \A q \in 1..p : b[q] # 0

\* b without its last element.
Front(b) == [i \in 1..(Len(b) - 1) |-> b[i]]

\* Lexicographic order on sequences of numbers, stated by the first
\* position at which they part.
LexLess(x, y) ==
    \E k \in 0..Len(x) :
        /\ k <= Len(y)
        /\ \A i \in 1..k : x[i] = y[i]
        /\ \/ k = Len(x) /\ k < Len(y)
           \/ k < Len(x) /\ k < Len(y) /\ x[k + 1] < y[k + 1]

LexOrdering(x, y) ==
    IF LexLess(x, y) THEN "Less" ELSE IF LexLess(y, x) THEN "Greater" ELSE "Equal"

\* C1: for every b without a zero byte, CString::new(b) succeeds, and the
\* buffer has as_bytes() = b and as_bytes_with_nul() = b ++ [0].
C1_NewKeepsBytes ==
    (ret.op = "new" /\ ~HasZero(in1)) =>
        /\ ret.r.tag = "Ok"
        /\ as_bytes(ret.r.val) = [panic |-> FALSE, v |-> in1]
        /\ as_bytes_with_nul(ret.r.val) = in1 \o <<0>>

C1_Witness ==
    ret.op = "new" /\ in1 = <<1, 200>> /\ ret.r.tag = "Ok"

\* C2: CString::new(b) fails exactly when b has a zero byte, the last
\* position included; the NulError then carries the offset of the first
\* zero and returns b itself.
C2_NewRejectsZero ==
    ret.op = "new" =>
        /\ (ret.r.tag = "Err") <=> HasZero(in1)
        /\ ret.r.tag = "Err" =>
              /\ nul_position(ret.r) = FirstZero(in1)
              /\ into_vec(ret.r) = in1

C2_Witness ==
    ret.op = "new" /\ in1 = <<1, 0>> /\ ret.r.tag = "Err"

\* C3: CStr::from_bytes_with_nul(b) succeeds exactly when the last byte of b
\* is zero and no earlier byte is; the view then has to_bytes_with_nul() = b
\* and to_bytes() = b without its last byte.
C3_FromBytesWithNulOk ==
    ret.op = "from_bytes_with_nul" =>
        /\ (ret.r.tag = "Ok") <=>
              /\ Len(in1) >= 1
              /\ in1[Len(in1)] = 0
              /\ \A i \in 1..(Len(in1) - 1) : in1[i] # 0
        /\ ret.r.tag = "Ok" =>
              /\ to_bytes_with_nul(ret.r.val) = in1
              /\ to_bytes(ret.r.val) = [panic |-> FALSE, v |-> Front(in1)]

C3_Witness ==
    ret.op = "from_bytes_with_nul" /\ in1 = <<200, 1, 0>> /\ ret.r.tag = "Ok"

\* C4: a failing CStr::from_bytes_with_nul(b) reports NotNulTerminated
\* exactly when b has no zero byte at all, and otherwise InteriorNul(pos)
\* with pos the offset of the first zero, pos + 1 # len(b); a zero followed
\* by a non-zero last byte is InteriorNul.
C4_FromBytesWithNulErr ==
    (ret.op = "from_bytes_with_nul" /\ ret.r.tag = "Err") =>
        /\ (ret.r.kind = "NotNulTerminated") <=> ~HasZero(in1)
        /\ HasZero(in1) =>
              /\ ret.r.kind = "InteriorNul"
              /\ ret.r.pos = FirstZero(in1)
              /\ ret.r.pos + 1 # Len(in1)

C4_Witness ==
    /\ ret.op = "from_bytes_with_nul"
    /\ in1 = <<1, 0, 200>>
    /\ ret.r.tag = "Err"
    /\ ret.r.kind = "InteriorNul"

\* C8: for every b without a zero byte, the view over b ++ [0] equals the
\* deref of CString::new(b), and both feed the hasher the same data.
C8_ViewOwnedEqualHash ==
    (ret.op = "equal_hash" /\ ~HasZero(in1)) =>
        /\ ret.built
        /\ ret.eq = "true"
        /\ ret.view_hash = ret.owned_hash

C8_Witness ==
    ret.op = "equal_hash" /\ in1 = <<200, 1>> /\ ret.built

\* C9: for two owned buffers, the derived equality and ordering of CString
\* (over the whole buffer) agree with the equality and ordering of their
\* views, which is the lexicographic comparison of the bytes without the
\* terminator.
C9_OwnedOrderIsViewOrder ==
    ret.op = "compare" =>
        /\ ret.owned_eq <=> (ret.view_eq = "true")
        /\ ret.owned_cmp = ret.view_cmp
        /\ ret.view_cmp = LexOrdering(in1, in2)
        /\ (ret.view_eq = "true") <=> (in1 = in2)

C9_Witness ==
    /\ ret.op = "compare"
    /\ in1 = <<1>>
    /\ in2 = <<1, 200>>
    /\ ret.owned_cmp = "Less"

\* C14: to_owned() of a view gives a new buffer whose bytes, terminator
\* included, are those of the view, and the bytes behind the view are what
\* they were.
C14_ToOwnedCopies ==
    ret.op = "to_owned" =>
        /\ as_bytes_with_nul(ret.owned) = to_bytes_with_nul(ret.view)
        /\ as_bytes_with_nul(ret.owned) = in1
        /\ to_bytes_with_nul(ret.view) = in1

\* A view over bytes above 0x7f, where c_char is signed, has been copied.
C14_Witness ==
    /\ ret.op = "to_owned"
    /\ signed
    /\ in1 = <<200, 1, 0>>
    /\ ret.view.inner = <<-56, 1, 0>>
    /\ ret.owned.inner = <<200, 1, 0>>

\* C16: from_vec_unchecked(v) owns v ++ [0] for every vector v, zeros in v
\* or not: as_bytes_with_nul() is v ++ [0], as_bytes() is v, and the buffer
\* has a length of at least one and a last byte of zero.
C16_FromVecUncheckedAppends ==
    ret.op = "from_vec_unchecked" =>
        /\ ret.with_nul = in1 \o <<0>>
        /\ ~ret.bytes.panic
        /\ ret.bytes.v = in1
        /\ Len(ret.with_nul) >= 1
        /\ ret.with_nul[Len(ret.with_nul)] = 0

\* tests::build_with_zero3: the vector [0] is the payload [0].
C16_Witness ==
    /\ ret.op = "from_vec_unchecked"
    /\ in1 = <<0>>
    /\ ret.bytes.v = <<0>>
    /\ ret.with_nul = <<0, 0>>

\* C21: over memory that holds a zero byte, strlen is the number of bytes
\* before the first zero; the view from_ptr gives has those bytes as
\* to_bytes() and those bytes and the zero as to_bytes_with_nul(); the buffer
\* from_raw gives has strlen + 1 bytes and ends at the first zero, whatever
\* the length of the buffer that was exported.
C21_ScanToFirstZero ==
    /\ ret.op = "from_ptr" =>
          IF HasZero(in1)
          THEN /\ ~ret.ub
               /\ ret.strlen = FirstZero(in1)
               /\ ~ret.to_bytes.panic
               /\ ret.to_bytes.v = SubSeq(in1, 1, FirstZero(in1))
               /\ ret.to_bytes_with_nul = SubSeq(in1, 1, FirstZero(in1) + 1)
          ELSE ret.ub
    /\ ret.op = "from_raw" =>
          LET mem == in1 \o <<0>> IN
          /\ ret.exported = mem
          /\ ret.strlen = FirstZero(mem)
          /\ Len(ret.reclaimed) = ret.strlen + 1
          /\ ret.reclaimed = SubSeq(mem, 1, FirstZero(mem) + 1)
          /\ HasZero(in1) <=> Len(ret.reclaimed) < Len(ret.exported)

\* The buffer of from_vec_unchecked([1, 0, 200]), four bytes exported, has
\* been reclaimed as the two bytes [1, 0].
C21_Witness ==
    /\ ret.op = "from_raw"
    /\ in1 = <<1, 0, 200>>
    /\ ret.exported = <<1, 0, 200, 0>>
    /\ ret.reclaimed = <<1, 0>>

\* ----------------------------------------------- properties of SpecEscape

\* "0123456789abcdef"
LowerHexDigits ==
    <<48, 49, 50, 51, 52, 53, 54, 55, 56, 57, 97, 98, 99, 100, 101, 102>>

\* The escape of a byte by the rule table: the six named escapes, the
\* printable bytes as they are, \xHH in lower case for the rest.
Escaped(c) ==
    CASE c = 9 -> <<92, 116>>
      [] c = 13 -> <<92, 114>>
      [] c = 10 -> <<92, 110>>
      [] c = 92 -> <<92, 92>>
      [] c = 39 -> <<92, 39>>
      [] c = 34 -> <<92, 34>>
      [] c \in (32..126) \ {92, 39, 34} -> <<c>>
      [] OTHER -> <<92, 120, LowerHexDigits[(c \div 16) + 1],
                    LowerHexDigits[(c % 16) + 1]>>

\* The elements the iterator has still to yield, front to back.
Remaining(e) == SubSeq(e.data, e.range.start + 1, e.range.end)

\* C10: escape_default(c) yields, from the front, exactly the escape of c
\* by the rule table: what next() has yielded followed by what is left is
\* that sequence, so an iterator drained by next() has yielded all of it.
C10_EscapeTable ==
    back = <<>> => front \o Remaining(esc) = Escaped(byte)

C10_Witness ==
    /\ byte = 157
    /\ front = <<92, 120, 57, 100>>
    /\ back = <<>>
    /\ got = None


RECURSIVE Reverse(_)
Reverse(q) == IF q = <<>> THEN <<>> ELSE Reverse(Tail(q)) \o <<Head(q)>>

\* C20: the escape of a byte has 1, 2 or 4 elements; however next() and
\* next_back() are interleaved, what next() has yielded, what is left and
\* what next_back() has yielded, reversed, make up the escape sequence (each
\* element once, the front in order and the back in reverse), size_hint is
\* the number of elements not yet yielded, a call on an iterator with
\* elements left yields one, and a call on an exhausted iterator returns
\* None and leaves it exhausted.
C20_OneState ==
    /\ Len(front) + size_hint(esc) + Len(back) \in {1, 2, 4}
    /\ front \o Remaining(esc) \o Reverse(back) = Escaped(byte)
    /\ size_hint(esc) = Len(Escaped(byte)) - Len(front) - Len(back)
    /\ size_hint(esc) >= 0

C20_Step ==
    IF size_hint(esc) = 0
    THEN got' = None /\ esc' = esc /\ front' = front /\ back' = back
    ELSE /\ got'.some
         /\ size_hint(esc') = size_hint(esc) - 1
         /\ Len(front') + Len(back') = Len(front) + Len(back) + 1

C20_EscapeIterator == [](C20_OneState) /\ [][C20_Step]_vars

\* The escape \x9d taken from both ends, then asked once more.
C20_Witness ==
    /\ byte = 157
    /\ front = <<92, 120>>
    /\ back = <<100, 57>>
    /\ size_hint(esc) = 0
    /\ got = None

\* ------------------------------------------------- properties of SpecText

\* The escapes of the bytes of b, one after the other, by the rule table.
RECURSIVE EscapedAll(_)
EscapedAll(b) ==
    IF b = <<>> THEN <<>> ELSE Escaped(Head(b)) \o EscapedAll(Tail(b))

\* C11: the Debug rendering of a CString or a CStr is a double quote, the
\* escape of every byte of to_bytes() in order (the terminator is not
\* rendered), and a double quote; the owned buffer and the views of the
\* same bytes render identically.
C11_DebugRendering ==
    ret.op = "fmt" =>
        /\ ~ret.view.panic
        /\ ret.view.v = <<34>> \o EscapedAll(in1) \o <<34>>
        /\ ret.owned = ret.view
        /\ ret.borrowed = ret.view

\* A buffer with a printable byte, a newline and a byte above 0x7f has been
\* rendered: "A\n\xff"
C11_Witness ==
    /\ ret.op = "fmt"
    /\ in1 = <<65, 10, 255>>
    /\ ret.owned.v = <<34, 65, 92, 110, 92, 120, 102, 102, 34>>

\* C12: into_string on a buffer whose payload is not valid UTF-8 returns the
\* error whose into_cstring() has the bytes, terminator included, of the
\* original buffer; on a valid payload it returns the string whose bytes are
\* the payload.
C12_IntoStringKeepsBuffer ==
    ret.op = "into_string" =>
        IF from_utf8(as_bytes(ret.of).v)
        THEN ret.tag = "Ok" /\ ret.string = as_bytes(ret.of).v
        ELSE /\ ret.tag = "Err"
             /\ as_bytes_with_nul(ret.back) = as_bytes_with_nul(ret.of)
             /\ ret.back.inner[Len(ret.back.inner)] = 0

\* A payload ending in a lead byte with nothing after it was refused and
\* handed back.
C12_Witness ==
    /\ ret.op = "into_string"
    /\ ret.tag = "Err"
    /\ in1 = <<65, 195>>
    /\ ret.back.inner = <<65, 195, 0>>

\* The payload b is well-formed text up to k - 1, one byte that is not
\* ASCII at k, and well-formed text after k.
OneInvalidByteAt(b, k) ==
    /\ from_utf8(SubSeq(b, 1, k - 1))
    /\ b[k] >= 128
    /\ from_utf8(SubSeq(b, k + 1, Len(b)))

\* C15: to_string_lossy() returns the bytes of to_bytes() borrowed exactly
\* when they are valid UTF-8, which is exactly when to_str() is Ok;
\* otherwise it returns an owned, well-formed string, and where the payload
\* is valid text around one invalid byte the string is that text with
\* U+FFFD in the place of the byte.
C15_LossyText ==
    ret.op = "to_string_lossy" =>
        /\ ~ret.lossy.panic /\ ~ret.str.panic /\ ~ret.bytes.panic
        /\ ret.bytes.v = in1
        /\ (ret.lossy.r.cow = "Borrowed") <=> from_utf8(in1)
        /\ (ret.lossy.r.cow = "Borrowed") <=> (ret.str.tag = "Ok")
        /\ ret.lossy.r.cow = "Borrowed" => ret.lossy.r.v = in1
        /\ ret.lossy.r.cow = "Owned" =>
              /\ from_utf8(ret.lossy.r.v)
              /\ \A k \in 1..Len(in1) :
                    OneInvalidByteAt(in1, k) =>
                        ret.lossy.r.v = SubSeq(in1, 1, k - 1)
                                        \o <<239, 191, 189>>
                                        \o SubSeq(in1, k + 1, Len(in1))

\* "A", the one byte 0xFF and a newline decoded to "A", U+FFFD and the
\* newline.
C15_Witness ==
    /\ ret.op = "to_string_lossy"
    /\ in1 = <<65, 255, 10>>
    /\ ret.str.tag = "Err"
    /\ ret.lossy.r = [cow |-> "Owned", v |-> <<65, 239, 191, 189, 10>>]

=============================================================================
